---- MODULE Spec2Model ----
(***************************************************************************)
(* Model of the backup pipeline of src/src/gateway/index.ts: syncToR2 and  *)
(* verifyR2Backup running against the R2 mount, one action per awaited     *)
(* executor command.                                                       *)
(*                                                                         *)
(* Text (command output, file names, file text) is a sequence of atoms: an *)
(* atom is a single character where the code looks at characters ("|",     *)
(* "\n", digits, "-", "o", "k") and an indivisible chunk of other          *)
(* characters elsewhere ("clawdbot", "skill.md").                          *)
(***************************************************************************)
EXTENDS Integers, Sequences, FiniteSets, TLC

(***************************************************************************)
(* Bounds of the model.                                                    *)
(***************************************************************************)
\* The clock takes the values 0..MaxClock.
MaxClock == 1
MaxCorrupt == 1
MaxFaults == 1

(***************************************************************************)
(* Text helpers (String.prototype.includes / trim / split, parseInt).      *)
(***************************************************************************)
Whitespace == {" ", "\n"}
DigitChars == <<"0", "1", "2", "3", "4", "5", "6", "7", "8", "9">>
IsDigit(c) == \E i \in 1..10 : DigitChars[i] = c
DigitVal(c) == (CHOOSE i \in 1..10 : DigitChars[i] = c) - 1

Includes(s, sub) ==
  \E i \in 1..(Len(s) - Len(sub) + 1) : SubSeq(s, i, i + Len(sub) - 1) = sub

RECURSIVE TrimStart(_)
TrimStart(s) ==
  IF s # <<>> /\ Head(s) \in Whitespace THEN TrimStart(Tail(s)) ELSE s

RECURSIVE TrimEnd(_)
TrimEnd(s) ==
  IF s # <<>> /\ s[Len(s)] \in Whitespace
  THEN TrimEnd(SubSeq(s, 1, Len(s) - 1)) ELSE s

Trim(s) == TrimEnd(TrimStart(s))

\* s.split(sep) for a one-character separator: the fields between separators.
RECURSIVE Split(_, _)
Split(s, sep) ==
  IF \A i \in 1..Len(s) : s[i] # sep THEN <<s>>
  ELSE LET k == CHOOSE i \in 1..Len(s) :
                  s[i] = sep /\ \A j \in 1..(i - 1) : s[j] # sep
       IN <<SubSeq(s, 1, k - 1)>> \o Split(SubSeq(s, k + 1, Len(s)), sep)

Range(s) == {s[i] : i \in 1..Len(s)}
IsPrefix(s, t) == Len(s) <= Len(t) /\ SubSeq(t, 1, Len(s)) = s

RECURSIVE Concat(_)
Concat(ss) == IF ss = <<>> THEN <<>> ELSE Head(ss) \o Concat(Tail(ss))

RECURSIVE SelectSeqBy(_, _)
SelectSeqBy(s, keep) ==
  IF s = <<>> THEN <<>>
  ELSE (IF Head(s) \in keep THEN <<Head(s)>> ELSE <<>>) \o SelectSeqBy(Tail(s), keep)

\* The value undefined of a text-valued field or variable.
Undefined == <<"undefined">>

\* parseInt(x, 10) || 0: leading whitespace skipped, then the leading decimal
\* digits; no digits (NaN), undefined (NaN) and 0 all give 0.
RECURSIVE DigitsValue(_, _)
DigitsValue(s, acc) ==
  IF s # <<>> /\ IsDigit(Head(s))
  THEN DigitsValue(Tail(s), acc * 10 + DigitVal(Head(s)))
  ELSE acc

ParseIntOrZero(x) ==
  IF x = Undefined THEN 0 ELSE DigitsValue(TrimStart(x), 0)

\* lastSync.match(/^\d{4}-\d{2}-\d{2}/)
MatchesDatePrefix(s) ==
  /\ Len(s) >= 10
  /\ \A i \in {1, 2, 3, 4, 6, 7, 9, 10} : IsDigit(s[i])
  /\ s[5] = "-"
  /\ s[8] = "-"

(***************************************************************************)
(* Files and directories.  A file name is a text; a file's content is one  *)
(* of Contents.  A directory is a record: exists, and files (name ->       *)
(* content), the regular files directly in it.                             *)
(***************************************************************************)
Roots == <<"clawdbot", "skills">>
RootSet == {Roots[i] : i \in 1..Len(Roots)}

MarkerName == <<"clawdbot.json">>
LockName == <<"gateway", ".lock">>
SkillName == <<"skill.md">>
\* A file name that holds the field separator of the manifest lines.
PipeName == <<"a", "|", "b">>
\* A file name that the shell reads as a command substitution when it stands
\* unescaped in a double-quoted word: $(...), the command between the marks.
RmTokenCmd == "cd ..;cd ..;cd ..;cd data;cd moltbot;rm .last-sync"
SubstName == <<"$(", RmTokenCmd, ")">>
Contents == {"A", "B"}

NoFiles == [n \in {} |-> "A"]
NoDir == [exists |-> FALSE, files |-> NoFiles]
MkDir(f) == [exists |-> TRUE, files |-> f]

\* The order in which find lists the files of one directory.
NameOrder == <<MarkerName, LockName, SkillName, PipeName, SubstName>>

\* md5sum and stat -c%s of a content (the leading digits of a checksum are
\* single characters: parseInt reads them when a checksum lands in the size
\* field).
MD5(c) == IF c = "A" THEN <<"0", "cc175b9">> ELSE <<"9", "2", "eb5ffe">>
SizeText(c) == IF c = "A" THEN <<"7">> ELSE <<"1", "2">>

\* `${R2_MOUNT_PATH}/<root>/<name>` relative to the mount: root "/" name.
PathOf(r, n) == <<r, "/">> \o n

\* rsync --exclude='*.lock' --exclude='*.log' --exclude='*.tmp'
ExcludedSuffix == {".lock", ".log", ".tmp"}
Excluded(r, n) == r = "clawdbot" /\ n # <<>> /\ n[Len(n)] \in ExcludedSuffix

\* rsync -r --no-times --delete [--exclude...] src/ dst/ run to completion: dst
\* holds the files of src that are not excluded; an excluded file already in dst
\* is neither copied nor deleted.
Mirror(r, s, d) ==
  LET keep == {n \in DOMAIN d.files : Excluded(r, n)}
      copy == {n \in DOMAIN s.files : ~Excluded(r, n)}
  IN MkDir([n \in keep \cup copy |->
              IF n \in copy THEN s.files[n] ELSE d.files[n]])

\* The directories a failed change from d towards t can leave: every file is
\* either as in d or as in t.
Between(d, t) ==
  LET names == DOMAIN d.files \cup DOMAIN t.files
      Mix(S) == LET have == {n \in names :
                               IF n \in S THEN n \in DOMAIN t.files
                                          ELSE n \in DOMAIN d.files}
                IN MkDir([n \in have |->
                            IF n \in S THEN t.files[n] ELSE d.files[n]])
  IN {Mix(S) : S \in SUBSET names} \cup {d}

(***************************************************************************)
(* What the shell commands of syncToR2 compute.                            *)
(***************************************************************************)
\* test -f /root/.clawdbot/clawdbot.json && echo "ok"
SanityStdout(source) ==
  IF source["clawdbot"].exists /\ MarkerName \in DOMAIN source["clawdbot"].files
  THEN <<"o", "k", "\n">>
  ELSE <<>>

\* A check that lets every output through.
SanityPassesAlways(stdout) == TRUE

\* checkLogs.stdout?.includes('ok')
SanityPasses(stdout) == Includes(stdout, <<"o", "k">>)

\* A rotation that leaves the older generation in place.
RotatedPrevKept(c, p) == p

\* rm -rf prev; cp -a cur prev, both succeeding: prev is a copy of cur.
RotatedPrev(c, p) == MkDir(c.files)

\* One root of rotateCmd.  Nothing is done unless cur is a directory.  Each of
\* rm and cp may fail ("|| true"): a failed rm leaves prev in place, and cp -a
\* then copies cur into it as a subdirectory, so the files directly in prev
\* stay those of the older generation; a failed cp leaves any part of the
\* copy.  The result is the set of (outcome, prev') pairs.
RotateRoot(c, p) ==
  IF ~c.exists THEN {<<"skipped", p>>}
  ELSE {<<"ok", RotatedPrev(c, p)>>}
       \cup {<<"cpFail", q>> : q \in Between(NoDir, RotatedPrev(c, p))}
       \cup (IF p.exists THEN {<<"rmFail", p>>} ELSE {})

\* One rsync of syncCmd: completed (exit 0), or failed part-way (exit # 0).
RsyncRoot(r, s, d) ==
  {<<0, Mirror(r, s, d)>>}
  \cup {<<1, q>> : q \in Between(d, Mirror(r, s, d))}

\* syncCmd: rsync clawdbot && rsync skills.  The set of (exitCode, cur') pairs.
TransferOutcomes(source, c) ==
  LET first == RsyncRoot("clawdbot", source["clawdbot"], c["clawdbot"])
      second == RsyncRoot("skills", source["skills"], c["skills"])
  IN {<<1, [c EXCEPT !["clawdbot"] = f[2]]>> : f \in {g \in first : g[1] # 0}}
     \cup {<<s[1], [c EXCEPT !["clawdbot"] = f[2], !["skills"] = s[2]]>> :
             f \in {g \in first : g[1] = 0}, s \in second}

\* find clawdbot skills -type f: the files under the current directories.
FindFiles(c) ==
  LET Listing(r) == SelectSeqBy(NameOrder,
                                IF c[r].exists THEN DOMAIN c[r].files ELSE {})
      Paths(r) == [i \in 1..Len(Listing(r)) |-> <<r, Listing(r)[i]>>]
  IN Concat([i \in 1..Len(Roots) |-> Paths(Roots[i])])

\* echo "$f|$sum|$size" for one file.
ManifestLine(r, n, content) ==
  PathOf(r, n) \o <<"|">> \o MD5(content) \o <<"|">> \o SizeText(content) \o <<"\n">>

\* The output of manifestCmd.
ManifestStdout(c) ==
  LET fs == FindFiles(c)
  IN Concat([i \in 1..Len(fs) |->
               ManifestLine(fs[i][1], fs[i][2], c[fs[i][1]].files[fs[i][2]])])

\* The line for a file that find listed and that is gone when md5sum and
\* stat reach it: both print nothing (2>/dev/null), so sum and size are empty.
LostLine(r, n) == PathOf(r, n) \o <<"|", "|", "\n">>

\* The output of manifestCmd when the files in lost (pairs of root and name)
\* disappear after find has listed them.
ManifestStdoutWith(c, lost) ==
  LET fs == FindFiles(c)
  IN Concat([i \in 1..Len(fs) |->
               IF fs[i] \in lost
               THEN LostLine(fs[i][1], fs[i][2])
               ELSE ManifestLine(fs[i][1], fs[i][2], c[fs[i][1]].files[fs[i][2]])])

\* The directories without the file n of root r.
WithoutFile(c, r, n) ==
  [c EXCEPT ![r].files = [m \in DOMAIN c[r].files \ {n} |-> c[r].files[m]]]

\* The runs of manifestCmd over the directories c: the output and the
\* directories afterwards.  Every file is read, or (while the storage has
\* faults left) one file is lost under the command.
ManifestRuns(c, faultsLeft) ==
  {[stdout |-> ManifestStdout(c), cur |-> c]}
  \cup (IF faultsLeft
        THEN {[stdout |-> ManifestStdoutWith(c, {f}), cur |-> WithoutFile(c, f[1], f[2])] :
                f \in Range(FindFiles(c))}
        ELSE {})

\* const [path, checksum, size] = line.split('|');
\* return { path, checksum, size: parseInt(size, 10) || 0 }
Field(fields, i) == IF i <= Len(fields) THEN fields[i] ELSE Undefined
ParseLine(line) ==
  LET fields == Split(line, "|")
  IN [path |-> Field(fields, 1), checksum |-> Field(fields, 2),
      size |-> ParseIntOrZero(Field(fields, 3))]

\* (stdout || '').trim().split('\n').filter(line => line.includes('|')).map(...)
RECURSIVE MapParse(_)
MapParse(lines) ==
  IF lines = <<>> THEN <<>>
  ELSE (IF Includes(Head(lines), <<"|">>) THEN <<ParseLine(Head(lines))>> ELSE <<>>)
       \o MapParse(Tail(lines))
ParseEntries(stdout) == MapParse(Split(Trim(stdout), "\n"))

\* date -Iseconds and new Date().toISOString() at time t.
DateText(t) ==
  <<"2", "0", "2", "6", "-", "0", "1", "-", "2", "7", "T", DigitChars[(t % 10) + 1]>>
IsoText(t) == DateText(t) \o <<"Z">>

\* The manifest object of lines 130-134.
MkManifest(t, entries) ==
  [version |-> 1, timestamp |-> IsoText(t), entries |-> entries]

(***************************************************************************)
(* State.                                                                  *)
(*   source        the source trees /root/.clawdbot and /root/clawd/skills *)
(*   cur, prev     the destination directories <root> and <root>.prev      *)
(*   manifestFile  .manifest.json, tokenFile  .last-sync                   *)
(*   clock         the time of day, in seconds                             *)
(*   inv           the invocation each caller is in: its position, its     *)
(*                 local variables and a record of what it has done:       *)
(*                 issued (the commands started), mountCalls, raised (the  *)
(*                 call that raised), rot (how rotateCmd went for each     *)
(*                 root, kept until the transfer starts), wroteManifest,   *)
(*                 wroteToken and tokenWritten (what writeManifestCmd      *)
(*                 did), start (the destination at entry: its previous     *)
(*                 directories kept until the rotation is started, the     *)
(*                 rest until the transfer is started),                    *)
(*                 manifestStdout (kept until the manifest is written)     *)
(*   synced        what has happened to the destination since the last     *)
(*                 sync in which every step succeeded: ok (there was one   *)
(*                 and nothing but the content of the files in changed     *)
(*                 was altered since), changed                             *)
(***************************************************************************)
VARIABLES source, cur, prev, manifestFile, tokenFile, clock, nCorrupt, inv, synced

\* The access middleware of src/src/auth (middleware.ts, jwt.ts):
\*   acc        the request the middleware is handling: its position, the
\*              environment, options and headers it was called with, the
\*              token extracted, the cache entry getOrCreateJWKS found
\*              (cached) and the fetcher it returned (jwks), whether
\*              verifyAccessJWT returned a payload
\*              (verified), how often next was called, the response
\*   jwksCache  the module-level Map of jwt.ts: issuer -> {jwks, createdAt}
\*   nowMs      Date.now()
\*   fetchers   the number of JWKS fetchers created so far
VARIABLES acc, jwksCache, nowMs, fetchers

authVars == <<acc, jwksCache, nowMs, fetchers>>
pipeVars == <<source, cur, prev, manifestFile, tokenFile, clock, nCorrupt, inv, synced>>
vars == <<source, cur, prev, manifestFile, tokenFile, clock, nCorrupt, inv, synced,
          acc, jwksCache, nowMs, fetchers>>

dest == [cur |-> cur, prev |-> prev,
         manifestFile |-> manifestFile, tokenFile |-> tokenFile]

Procs == {1, 2, 3}
\* The callers of the serialized specification (spec.md section 5: callers
\* needing safety serialize invocations externally).
SeqProcs == {1}

Creds == {"R2_ACCESS_KEY_ID", "R2_SECRET_ACCESS_KEY", "CF_ACCOUNT_ID"}
\* A check that forgets the account id.
NotConfiguredKeysOnly(env) ==
  \/ "R2_ACCESS_KEY_ID" \notin env
  \/ "R2_SECRET_ACCESS_KEY" \notin env

\* !env.R2_ACCESS_KEY_ID || !env.R2_SECRET_ACCESS_KEY || !env.CF_ACCOUNT_ID
NotConfigured(env) ==
  \/ "R2_ACCESS_KEY_ID" \notin env
  \/ "R2_SECRET_ACCESS_KEY" \notin env
  \/ "CF_ACCOUNT_ID" \notin env

\* The environments an invocation is called with: every credential present,
\* one of them missing, none present.
Envs == {Creds, {}} \cup {Creds \ {c} : c \in Creds}

\* The source trees an invocation can meet.
MkSource(a, b) == [r \in RootSet |-> IF r = "clawdbot" THEN a ELSE b]
Unpopulated == MkSource(MkDir(NoFiles), MkDir([n \in {SkillName} |-> "A"]))
Sources ==
  {\* a state directory that has not been populated (no marker)
   Unpopulated,
   \* config and one skill
   MkSource(MkDir([n \in {MarkerName} |-> "A"]), MkDir([n \in {SkillName} |-> "A"])),
   \* config, a lock file that the transfer excludes, no skills
   MkSource(MkDir([n \in {MarkerName, LockName} |-> "B"]), MkDir(NoFiles)),
   \* config, and a skill whose name holds a "|"
   MkSource(MkDir([n \in {MarkerName} |-> "A"]), MkDir([n \in {PipeName} |-> "A"]))}

NoManifestFile == [kind |-> "absent", doc |-> MkManifest(0, <<>>)]
NoTokenFile == [exists |-> FALSE, text |-> <<>>]

NoLogs == [stdout |-> <<>>, stderr |-> <<>>]
NoResult == [success |-> FALSE, lastSync |-> Undefined,
             error |-> "pending", details |-> Undefined]
NoVerifyResult == [valid |-> FALSE, errors |-> <<>>]

\* The destination before the first sync.
EmptyDest == [cur |-> [r \in RootSet |-> NoDir], prev |-> [r \in RootSet |-> NoDir],
              manifestFile |-> NoManifestFile, tokenFile |-> NoTokenFile]

\* No sync in which every step succeeded has ended, or the destination was
\* written to since.
NotSynced == [ok |-> FALSE, changed |-> {}]

SyncOrder == <<"sanity", "rotate", "transfer", "manifest", "write", "readback">>

IdleInv ==
  [op |-> "none", pc |-> "idle", env |-> {},
   issued |-> <<>>, mountCalls |-> 0, start |-> EmptyDest,
   raised |-> "none",
   checkStdout |-> Undefined,
   rot |-> [r \in RootSet |-> "none"],
   exitCode |-> 0, procLogs |-> NoLogs,
   manifestStdout |-> <<>>, entries |-> <<>>, manifest |-> MkManifest(0, <<>>),
   wroteManifest |-> "no", wroteToken |-> "no", tokenWritten |-> Undefined,
   result |-> NoResult,
   idx |-> 0, errors |-> <<>>, vresult |-> NoVerifyResult]

\* jwksCache.get(issuer) when the issuer has no entry (fetchers are numbered
\* from 1).
NoEntry == [jwks |-> 0, createdAt |-> 0]

\* The middleware between requests.
IdleAcc ==
  [pc |-> "idle",
   env |-> [DEV_MODE |-> Undefined, E2E_TEST_MODE |-> Undefined,
            CF_ACCESS_TEAM_DOMAIN |-> Undefined, CF_ACCESS_AUD |-> Undefined],
   type |-> "json", redirectOnMissing |-> FALSE,
   header |-> Undefined, cookie |-> Undefined,
   jwt |-> Undefined, cached |-> NoEntry, jwks |-> 0,
   verified |-> FALSE, bypassed |-> FALSE,
   nextCalls |-> 0, status |-> 0, thrown |-> FALSE]

\* new Map(): no issuer has an entry.
EmptyCache == [i \in {} |-> [jwks |-> 0, createdAt |-> 0]]

InitAccess ==
  /\ acc = IdleAcc
  /\ jwksCache = EmptyCache
  /\ nowMs = 0
  /\ fetchers = 0

Init ==
  /\ InitAccess
  /\ source \in Sources
  /\ cur = EmptyDest.cur
  /\ prev = EmptyDest.prev
  /\ manifestFile = EmptyDest.manifestFile
  /\ tokenFile = EmptyDest.tokenFile
  /\ clock = 0
  /\ nCorrupt = 0
  /\ inv = [p \in Procs |-> IdleInv]
  /\ synced = NotSynced

(***************************************************************************)
(* The executor.  A step is sandbox.startProcess, waitForProcess and, where *)
(* the code reads output, proc.getLogs; each may raise instead of           *)
(* returning.  A command that was started has acted by the time a later     *)
(* call raises.                                                             *)
(***************************************************************************)
StartRaises == {"startProcess"}
WaitRaises == {"waitForProcess"}
LogsRaises == {"getLogs"}
\* proc.getLogs() of the transfer, read at line 154.
TransferLogsRaises == {"getLogs(transfer)"}
\* err instanceof Error ? err.message : ...
ErrMessage(how) ==
  IF how = "startProcess" THEN <<"startProcess rejected">>
  ELSE IF how = "waitForProcess" THEN <<"process timed out">>
  ELSE <<"getLogs rejected">>

Fail(error, details) ==
  [success |-> FALSE, lastSync |-> Undefined, error |-> error, details |-> details]

Finish(p, i, res) ==
  inv' = [inv EXCEPT ![p] = [i EXCEPT !.pc = "done", !.result = res]]

\* A command that is started again after it was started.
IssueTwice(i, cmd) == [i EXCEPT !.issued = Append(Append(@, cmd), cmd)]

Issue(i, cmd) == [i EXCEPT !.issued = Append(@, cmd)]

\* mountR2Storage(sandbox, env): whether the bucket is mounted afterwards.
MountOutcomes == BOOLEAN
\* mountR2Storage(sandbox, env) rejecting instead of returning.
MountRaises == {"mountR2Storage"}

\* An exception raised outside every try block leaves the function: the
\* caller's await rejects and there is no result.
Propagate(p, i, how) ==
  inv' = [inv EXCEPT ![p] = [i EXCEPT !.pc = "thrown", !.raised = how]]

(***************************************************************************)
(* syncToR2                                                                *)
(***************************************************************************)
\* Lines 46-50: entry and ConfigCheck.
SyncStart(p, env) ==
  /\ inv[p].pc = "idle"
  /\ LET i == [IdleInv EXCEPT !.op = "sync", !.env = env, !.start = dest]
     IN IF NotConfigured(env)
        THEN Finish(p, i, Fail("R2 storage is not configured", Undefined))
        ELSE inv' = [inv EXCEPT ![p] = [i EXCEPT !.pc = "mount"]]
  /\ UNCHANGED <<authVars, synced, source, cur, prev, manifestFile, tokenFile, clock, nCorrupt>>

\* Lines 52-56: MountCheck.
SyncMount(p) ==
  /\ inv[p].op = "sync" /\ inv[p].pc = "mount"
  /\ LET i == [inv[p] EXCEPT !.mountCalls = @ + 1]
     IN \/ \E mounted \in MountOutcomes :
             IF mounted
             THEN inv' = [inv EXCEPT ![p] = [i EXCEPT !.pc = "sanity"]]
             ELSE Finish(p, i, Fail("Failed to mount R2 storage", Undefined))
        \/ \E how \in MountRaises : Propagate(p, i, how)
  /\ UNCHANGED <<authVars, synced, source, cur, prev, manifestFile, tokenFile, clock, nCorrupt>>

\* Lines 58-77: SourceSanityCheck.
SyncSanity(p) ==
  /\ inv[p].op = "sync" /\ inv[p].pc = "sanity"
  /\ LET i == Issue(inv[p], "sanity")
     IN \/ \E how \in StartRaises \cup WaitRaises \cup LogsRaises :
             Finish(p, [i EXCEPT !.raised = how],
                    Fail("Failed to verify source files", ErrMessage(how)))
        \/ LET out == SanityStdout(source)
               j == [i EXCEPT !.checkStdout = out]
           IN IF ~SanityPasses(out)
              THEN Finish(p, j,
                     Fail("Sync aborted: source missing clawdbot.json",
                          <<"The local config directory is missing critical files.">>))
              ELSE inv' = [inv EXCEPT ![p] = [j EXCEPT !.pc = "rotate"]]
  /\ UNCHANGED <<authVars, synced, source, cur, prev, manifestFile, tokenFile, clock, nCorrupt>>

\* Lines 83-103 and the catch of lines 161-167: Rotate.  The exit status of
\* rotateCmd is not read.
SyncRotate(p) ==
  /\ inv[p].op = "sync" /\ inv[p].pc = "rotate"
  /\ LET i == [Issue(inv[p], "rotate") EXCEPT !.start.prev = EmptyDest.prev]
     IN \/ /\ \E how \in StartRaises :
                Finish(p, [i EXCEPT !.raised = how],
                       Fail("Sync error", ErrMessage(how)))
           /\ prev' = prev
           /\ synced' = synced
        \/ \E a \in RotateRoot(cur["clawdbot"], prev["clawdbot"]),
              b \in RotateRoot(cur["skills"], prev["skills"]) :
             LET j == [i EXCEPT !.rot = [r \in RootSet |->
                                           IF r = "clawdbot" THEN a[1] ELSE b[1]]]
             IN /\ prev' = [r \in RootSet |-> IF r = "clawdbot" THEN a[2] ELSE b[2]]
                /\ synced' = NotSynced
                /\ \/ inv' = [inv EXCEPT ![p] = [j EXCEPT !.pc = "transfer"]]
                   \/ \E how \in WaitRaises :
                        Finish(p, [j EXCEPT !.raised = how],
                               Fail("Sync error", ErrMessage(how)))
  /\ UNCHANGED <<authVars, source, cur, manifestFile, tokenFile, clock, nCorrupt>>

\* What proc.getLogs() of the transfer can hold after exit status e (rsync
\* without -v prints nothing when it succeeds).
TransferLogs(e) ==
  IF e = 0 THEN {[stdout |-> <<>>, stderr |-> <<>>]}
  ELSE {[stdout |-> <<"sending incremental file list">>, stderr |-> <<"rsync error">>],
        [stdout |-> <<>>, stderr |-> <<"rsync error">>],
        [stdout |-> <<"rsync: partial transfer">>, stderr |-> <<>>],
        [stdout |-> <<>>, stderr |-> <<>>]}

\* Lines 105-108: Transfer.  The exit status of syncCmd is not read.
SyncTransfer(p) ==
  /\ inv[p].op = "sync" /\ inv[p].pc = "transfer"
  /\ LET i == [Issue(inv[p], "transfer") EXCEPT !.rot = IdleInv.rot,
                                               !.start = EmptyDest]
     IN \/ /\ \E how \in StartRaises :
                Finish(p, [i EXCEPT !.raised = how],
                       Fail("Sync error", ErrMessage(how)))
           /\ cur' = cur
           /\ synced' = synced
        \/ \E t \in TransferOutcomes(source, cur) :
             /\ cur' = t[2]
             /\ synced' = NotSynced
             /\ \/ inv' = [inv EXCEPT ![p] =
                             [i EXCEPT !.pc = "manifest", !.exitCode = t[1]]]
                \/ \E how \in WaitRaises :
                     Finish(p, [i EXCEPT !.raised = how],
                            Fail("Sync error", ErrMessage(how)))
  /\ UNCHANGED <<authVars, source, prev, manifestFile, tokenFile, clock, nCorrupt>>

\* Lines 110-134: ManifestGeneration.
SyncManifest(p) ==
  /\ inv[p].op = "sync" /\ inv[p].pc = "manifest"
  /\ LET i == Issue(inv[p], "manifest")
     IN \/ /\ \E how \in StartRaises \cup WaitRaises \cup LogsRaises :
                Finish(p, [i EXCEPT !.raised = how],
                       Fail("Sync error", ErrMessage(how)))
           /\ UNCHANGED <<cur, nCorrupt, synced>>
        \/ \E run \in ManifestRuns(cur, nCorrupt < MaxCorrupt) :
             LET entries == ParseEntries(run.stdout)
             IN /\ inv' = [inv EXCEPT ![p] =
                             [i EXCEPT !.pc = "write", !.manifestStdout = run.stdout,
                                       !.entries = entries,
                                       !.manifest = MkManifest(clock, entries)]]
                /\ cur' = run.cur
                /\ nCorrupt' = IF run.cur = cur THEN nCorrupt ELSE nCorrupt + 1
                /\ synced' = IF run.cur = cur THEN synced ELSE NotSynced
  /\ UNCHANGED <<authVars, source, prev, manifestFile, tokenFile, clock>>

\* cat > .manifest.json << 'EOFMANIFEST' ... : the document is written, or the
\* write fails and leaves the file as it was or cut short.
WriteManifestFile(old, doc) ==
  {<<"ok", [kind |-> "doc", doc |-> doc]>>,
   <<"fail", old>>,
   <<"fail", [kind |-> "partial", doc |-> MkManifest(0, <<>>)]>>}

\* date -Iseconds > .last-sync: the token is written, or the write fails and
\* leaves the file as it was or empty.
WriteTokenFile(old, t) ==
  {<<"ok", [exists |-> TRUE, text |-> DateText(t) \o <<"\n">>]>>,
   <<"fail", old>>,
   <<"fail", [exists |-> TRUE, text |-> <<>>]>>}

\* writeManifestCmd (lines 137-140): the two commands of the script run one
\* after the other; the shell goes on to the second whatever the first did.
WriteOutcomes(oldManifest, oldToken, doc, t) ==
  {<<m, k>> : m \in WriteManifestFile(oldManifest, doc),
              k \in WriteTokenFile(oldToken, t)}

\* Lines 136-143: ManifestPersist.  The exit status is not read.
SyncWrite(p) ==
  /\ inv[p].op = "sync" /\ inv[p].pc = "write"
  /\ LET i == Issue(inv[p], "write")
     IN \/ /\ \E how \in StartRaises :
                Finish(p, [i EXCEPT !.raised = how],
                       Fail("Sync error", ErrMessage(how)))
           /\ UNCHANGED <<manifestFile, tokenFile, synced>>
        \/ \E w \in WriteOutcomes(manifestFile, tokenFile,
                                  inv[p].manifest, clock) :
             LET j == [i EXCEPT !.manifestStdout = <<>>,
                                !.wroteManifest = w[1][1],
                                !.wroteToken = w[2][1],
                                !.tokenWritten =
                                   IF w[2][1] = "ok" THEN w[2][2].text ELSE Undefined]
             IN /\ manifestFile' = w[1][2]
                /\ tokenFile' = w[2][2]
                /\ synced' = NotSynced
                /\ \/ inv' = [inv EXCEPT ![p] = [j EXCEPT !.pc = "readback"]]
                   \/ \E how \in WaitRaises :
                        Finish(p, [j EXCEPT !.raised = how],
                               Fail("Sync error", ErrMessage(how)))
  /\ UNCHANGED <<authVars, source, cur, prev, clock, nCorrupt>>

\* cat .last-sync
CatToken(tok) == IF tok.exists THEN tok.text ELSE <<>>

\* A pattern anchored at both ends: /^\d{4}-\d{2}-\d{2}$/.
TokenAcceptedDateOnly(lastSync) == Len(lastSync) = 10 /\ MatchesDatePrefix(lastSync)

\* if (lastSync && lastSync.match(/^\d{4}-\d{2}-\d{2}/))
TokenAccepted(lastSync) == lastSync # <<>> /\ MatchesDatePrefix(lastSync)

\* logs.stdout || logs.stderr || ...: the two outputs in the other order.
FailureDetailsStdoutFirst(logs) ==
  IF logs.stdout # <<>> THEN logs.stdout
  ELSE IF logs.stderr # <<>> THEN logs.stderr
  ELSE <<"No timestamp file created">>

\* logs.stderr || logs.stdout || 'No timestamp file created'
FailureDetails(logs) ==
  IF logs.stderr # <<>> THEN logs.stderr
  ELSE IF logs.stdout # <<>> THEN logs.stdout
  ELSE <<"No timestamp file created">>

\* A decision that also asks for a transfer that exited with 0.
ReadbackSucceedsOnCleanExit(lastSync, exitCode) ==
  TokenAccepted(lastSync) /\ exitCode = 0

\* The decision of line 151: it reads the token and nothing else; the exit
\* status of the transfer (or of any other command) plays no part.
ReadbackSucceeds(lastSync, exitCode) == TokenAccepted(lastSync)

\* The invocation i has ended with success and each of its commands ran to
\* its end with nothing failing.
EveryStepSucceeded(i) ==
  /\ i.pc = "done" /\ i.result.success
  /\ i.raised = "none"
  /\ i.issued = SyncOrder
  /\ i.exitCode = 0
  /\ i.wroteManifest = "ok"
  /\ i.wroteToken = "ok"

\* Lines 145-160: TimestampVerify.
SyncReadback(p) ==
  /\ inv[p].op = "sync" /\ inv[p].pc = "readback"
  /\ LET i == Issue(inv[p], "readback")
     IN \/ \E how \in StartRaises \cup WaitRaises \cup LogsRaises :
             Finish(p, [i EXCEPT !.raised = how],
                    Fail("Sync error", ErrMessage(how)))
        \/ LET lastSync == Trim(CatToken(tokenFile))
           IN IF ReadbackSucceeds(lastSync, inv[p].exitCode)
              THEN Finish(p, i, [success |-> TRUE, lastSync |-> lastSync,
                                 error |-> "undefined", details |-> Undefined])
              ELSE \/ \E logs \in TransferLogs(inv[p].exitCode) :
                        Finish(p, [i EXCEPT !.procLogs = logs],
                               Fail("Sync failed", FailureDetails(logs)))
                   \/ \E how \in TransferLogsRaises :
                        Finish(p, [i EXCEPT !.raised = how],
                               Fail("Sync error", ErrMessage(how)))
  /\ synced' = IF EveryStepSucceeded(inv'[p])
               THEN [ok |-> TRUE, changed |-> {}]
               ELSE synced
  /\ UNCHANGED <<authVars, source, cur, prev, manifestFile, tokenFile, clock, nCorrupt>>

(***************************************************************************)
(* verifyR2Backup                                                          *)
(***************************************************************************)
\* An entry of errors that is a fixed message.
Msg(text) ==
  [kind |-> text, path |-> Undefined, expected |-> Undefined, got |-> Undefined]

\* `Checksum mismatch: ${entry.path} (expected ${entry.checksum}, got ${actualChecksum})`
MismatchError(entry, actual) ==
  [kind |-> "Checksum mismatch", path |-> entry.path,
   expected |-> entry.checksum, got |-> actual]

VerifyFinish(p, i, valid, errors) ==
  inv' = [inv EXCEPT ![p] =
            [i EXCEPT !.pc = "done", !.errors = errors,
                      !.vresult = [valid |-> valid, errors |-> errors]]]

\* A flag that is set whatever was found.
IsValidAlways(errors) == TRUE

\* errors.length === 0 (line 215).
IsValid(errors) == Len(errors) = 0

\* The catch of lines 216-218.
VerifyCaught(p, i, how) ==
  VerifyFinish(p, [i EXCEPT !.raised = how], FALSE, <<Msg("Verification error")>>)

\* Lines 177-183: entry and ConfigCheck.
VerifyStart(p, env) ==
  /\ inv[p].pc = "idle"
  /\ LET i == [IdleInv EXCEPT !.op = "verify", !.env = env, !.start = dest]
     IN IF NotConfigured(env)
        THEN VerifyFinish(p, i, FALSE, <<Msg("R2 storage is not configured")>>)
        ELSE inv' = [inv EXCEPT ![p] = [i EXCEPT !.pc = "mount"]]
  /\ UNCHANGED <<authVars, synced, source, cur, prev, manifestFile, tokenFile, clock, nCorrupt>>

\* Lines 185-189: MountCheck.
VerifyMount(p) ==
  /\ inv[p].op = "verify" /\ inv[p].pc = "mount"
  /\ LET i == [inv[p] EXCEPT !.mountCalls = @ + 1]
     IN \/ \E mounted \in MountOutcomes :
             IF mounted
             THEN inv' = [inv EXCEPT ![p] = [i EXCEPT !.pc = "read"]]
             ELSE VerifyFinish(p, i, FALSE, <<Msg("Failed to mount R2 storage")>>)
        \/ \E how \in MountRaises : Propagate(p, i, how)
  /\ UNCHANGED <<authVars, synced, source, cur, prev, manifestFile, tokenFile, clock, nCorrupt>>

\* A test that takes every output for a manifest.
NoManifestOutputNever(mf) == FALSE

\* !manifestLogs.stdout for cat .manifest.json: cat prints nothing when the
\* file is missing.
NoManifestOutput(mf) == mf.kind = "absent"

\* Lines 192-201: the manifest is read and parsed.  cat prints nothing for a
\* missing file; JSON.parse raises on a document cut short.
VerifyRead(p) ==
  /\ inv[p].op = "verify" /\ inv[p].pc = "read"
  /\ LET i == Issue(inv[p], "cat manifest")
     IN \/ \E how \in StartRaises \cup WaitRaises \cup LogsRaises :
             VerifyCaught(p, i, how)
        \/ CASE NoManifestOutput(manifestFile) ->
                  VerifyFinish(p, i, FALSE, <<Msg("No manifest found")>>)
             [] ~NoManifestOutput(manifestFile) /\ manifestFile.kind # "doc" ->
                  VerifyCaught(p, i, "JSON.parse")
             [] OTHER ->
                  LET j == [i EXCEPT !.manifest = manifestFile.doc, !.idx = 1]
                  IN IF manifestFile.doc.entries = <<>>
                     THEN VerifyFinish(p, j, IsValid(<<>>), <<>>)
                     ELSE inv' = [inv EXCEPT ![p] = [j EXCEPT !.pc = "check"]]
  /\ UNCHANGED <<authVars, synced, source, cur, prev, manifestFile, tokenFile, clock, nCorrupt>>

\* The commands the shell runs while it expands the double-quoted word
\* "${R2_MOUNT_PATH}/${entry.path}" of line 205: entry.path is put into the
\* command text as it is, so each $(...) in it is a command substitution.
Substitutions(path) ==
  LET inside == {i \in 2..(Len(path) - 1) :
                   path[i - 1] = "$(" /\ path[i + 1] = ")"}
      idx == SelectSeqBy([i \in 1..Len(path) |-> i], inside)
  IN [k \in 1..Len(idx) |-> path[idx[k]]]

\* The word md5sum gets: each $(...) replaced by what its command printed
\* (rm prints nothing).
ExpandedWord(path) ==
  LET keep == {i \in 1..Len(path) :
                 /\ path[i] \notin {"$(", ")"}
                 /\ ~(i > 1 /\ i < Len(path) /\ path[i - 1] = "$(" /\ path[i + 1] = ")")}
      idx == SelectSeqBy([i \in 1..Len(path) |-> i], keep)
  IN [k \in 1..Len(idx) |-> path[idx[k]]]

\* The destination after the shell ran command text cmd.
ShellRun(d, cmd) ==
  IF cmd = RmTokenCmd THEN [d EXCEPT !.tokenFile = NoTokenFile] ELSE d

RECURSIVE ShellRunAll(_, _)
ShellRunAll(d, cmds) ==
  IF cmds = <<>> THEN d ELSE ShellRunAll(ShellRun(d, Head(cmds)), Tail(cmds))

\* The destination after the md5sum command of line 205 ran for path.
Md5Effect(d, path) == ShellRunAll(d, Substitutions(path))

\* md5sum "${R2_MOUNT_PATH}/${entry.path}" 2>/dev/null | cut -d' ' -f1
Md5Stdout(c, path) ==
  LET word == ExpandedWord(path)
  IN IF \E r \in RootSet : c[r].exists /\ \E n \in DOMAIN c[r].files : PathOf(r, n) = word
     THEN LET r == CHOOSE r \in RootSet :
                     c[r].exists /\ \E n \in DOMAIN c[r].files : PathOf(r, n) = word
              n == CHOOSE n \in DOMAIN c[r].files : PathOf(r, n) = word
          IN MD5(c[r].files[n]) \o <<"\n">>
     ELSE <<>>

\* verifyLogs.stdout?.trim()
ActualChecksum(c, path) == Trim(Md5Stdout(c, path))

\* Lines 210-212 for one entry: errors after the comparison.
CheckEntry(errors, entry, actual) ==
  IF actual # entry.checksum
  THEN Append(errors, MismatchError(entry, actual))
  ELSE errors

\* A loop that leaves out the last entry.
LoopContinuesShort(entries, idx) == idx + 1 < Len(entries)

\* for (const entry of manifest.entries): whether the loop goes on after idx.
LoopContinues(entries, idx) == idx < Len(entries)

\* Lines 204-215: one turn of the loop, and the return after the last.
VerifyEntry(p) ==
  /\ inv[p].op = "verify" /\ inv[p].pc = "check"
  /\ LET i == Issue(inv[p], "md5sum")
         entry == inv[p].manifest.entries[inv[p].idx]
         after == Md5Effect(dest, entry.path)
     IN \/ /\ \E how \in StartRaises : VerifyCaught(p, i, how)
           /\ UNCHANGED <<cur, prev, manifestFile, tokenFile, synced>>
        \/ /\ cur' = after.cur
           /\ prev' = after.prev
           /\ manifestFile' = after.manifestFile
           /\ tokenFile' = after.tokenFile
           /\ synced' = IF after = dest THEN synced ELSE NotSynced
           /\ \/ \E how \in WaitRaises \cup LogsRaises : VerifyCaught(p, i, how)
              \/ LET errors == CheckEntry(inv[p].errors, entry,
                                          ActualChecksum(after.cur, entry.path))
                 IN IF LoopContinues(inv[p].manifest.entries, inv[p].idx)
                    THEN inv' = [inv EXCEPT ![p] =
                                   [i EXCEPT !.errors = errors, !.idx = @ + 1]]
                    ELSE VerifyFinish(p, i, IsValid(errors), errors)
  /\ UNCHANGED <<authVars, source, clock, nCorrupt>>

(***************************************************************************)
(* The environment.                                                        *)
(***************************************************************************)
\* The function returns or throws: the caller has the result or the
\* exception, and the locals are gone.
Return(p) ==
  /\ inv[p].pc \in {"done", "thrown"}
  /\ inv' = [inv EXCEPT ![p] = IdleInv]
  /\ UNCHANGED <<authVars, synced, source, cur, prev, manifestFile, tokenFile, clock, nCorrupt>>

\* Time passes between invocations (an invocation reads the clock as of its
\* start).
Tick ==
  /\ \A p \in Procs : inv[p].pc = "idle"
  /\ clock < MaxClock
  /\ clock' = clock + 1
  /\ UNCHANGED <<authVars, synced, source, cur, prev, manifestFile, tokenFile, nCorrupt, inv>>

\* The execution environment restarts and its volume is not repopulated: the
\* source is back to the state without the marker.
SourceReset ==
  /\ \A p \in Procs : inv[p].pc = "idle"
  /\ source # Unpopulated
  /\ source' = Unpopulated
  /\ UNCHANGED <<authVars, cur, prev, manifestFile, tokenFile, clock, nCorrupt, inv, synced>>

\* A stored file is damaged between invocations: its content changes, or the
\* file is lost.
Corrupt(r, n) ==
  /\ \A p \in Procs : inv[p].pc = "idle"
  /\ nCorrupt < MaxCorrupt
  /\ cur[r].exists /\ n \in DOMAIN cur[r].files
  /\ nCorrupt' = nCorrupt + 1
  /\ \/ /\ \E c \in Contents \ {cur[r].files[n]} :
             cur' = [cur EXCEPT ![r].files[n] = c]
        /\ synced' = [synced EXCEPT !.changed =
                        IF synced.ok THEN @ \cup {<<r, n>>} ELSE @]
     \/ /\ cur' = [cur EXCEPT ![r].files =
                     [m \in DOMAIN cur[r].files \ {n} |-> cur[r].files[m]]]
        /\ synced' = NotSynced
  /\ UNCHANGED <<authVars, source, prev, manifestFile, tokenFile, clock, inv>>

Next ==
  \/ \E p \in SeqProcs :
       \/ \E env \in Envs : SyncStart(p, env)
       \/ SyncMount(p)
       \/ SyncSanity(p)
       \/ SyncRotate(p)
       \/ SyncTransfer(p)
       \/ SyncManifest(p)
       \/ SyncWrite(p)
       \/ SyncReadback(p)
       \/ \E env \in Envs : VerifyStart(p, env)
       \/ VerifyMount(p)
       \/ VerifyRead(p)
       \/ VerifyEntry(p)
       \/ Return(p)
  \/ Tick
  \/ SourceReset
  \/ \E r \in RootSet, n \in {MarkerName, SkillName} : Corrupt(r, n)

Spec == Init /\ [][Next]_vars

(***************************************************************************)
(* The access middleware (src/src/auth/middleware.ts) and the token check  *)
(* behind it (src/src/auth/jwt.ts).                                        *)
(***************************************************************************)
\* A value that `!x`, `x && ...` and `x || ...` take for true: a non-empty
\* string.
Truthy(x) == x # Undefined /\ x # <<>>

CFConfigured(env) == Truthy(env.CF_ACCESS_TEAM_DOMAIN) /\ Truthy(env.CF_ACCESS_AUD)

\* A development switch that is honoured whatever else is configured.
IsDevModeUnblocked(env) == env.DEV_MODE = <<"true">>

\* isDevMode (lines 21-31).
IsDevMode(env) ==
  IF env.DEV_MODE = <<"true">>
  THEN (IF CFConfigured(env) THEN FALSE ELSE TRUE)
  ELSE FALSE

\* isE2ETestMode (lines 39-49).
IsE2ETestMode(env) ==
  IF env.E2E_TEST_MODE = <<"true">>
  THEN (IF CFConfigured(env) THEN FALSE ELSE TRUE)
  ELSE FALSE

\* cookie.trim().startsWith('CF_Authorization=')
IsAuthCookie(cookie) == IsPrefix(<<"CF_Authorization", "=">>, Trim(cookie))

\* .find(...): the first element that satisfies the test, else undefined.
RECURSIVE FindAuthCookie(_)
FindAuthCookie(cookies) ==
  IF cookies = <<>> THEN Undefined
  ELSE IF IsAuthCookie(Head(cookies)) THEN Head(cookies)
  ELSE FindAuthCookie(Tail(cookies))

\* extractJWT (lines 54-62): the header, else the value of the
\* CF_Authorization cookie up to its next "=", else null (here Undefined).
ExtractJWT(header, cookieHeader) ==
  LET found == IF cookieHeader = Undefined THEN Undefined
               ELSE FindAuthCookie(Split(cookieHeader, ";"))
      jwtCookie == IF found = Undefined THEN Undefined
                   ELSE Field(Split(found, "="), 2)
  IN IF Truthy(header) THEN header
     ELSE IF Truthy(jwtCookie) THEN jwtCookie
     ELSE Undefined

\* Lines 51-53 of jwt.ts: the issuer of a team domain.
Issuer(teamDomain) ==
  IF IsPrefix(<<"https://">>, teamDomain) THEN teamDomain
  ELSE <<"https://">> \o teamDomain

JWKS_CACHE_TTL_MS == 300000

\* A cache whose entries still count at the end of their fifth minute.
GetOrCreateJWKSInclusive(cache, issuer, now, made) ==
  IF issuer \in DOMAIN cache /\ (now - cache[issuer].createdAt) <= JWKS_CACHE_TTL_MS
  THEN [jwks |-> cache[issuer].jwks, cache |-> cache, made |-> made]
  ELSE LET jwks == made + 1
       IN [jwks |-> jwks,
           cache |-> [i \in DOMAIN cache \cup {issuer} |->
                        IF i = issuer THEN [jwks |-> jwks, createdAt |-> now]
                        ELSE cache[i]],
           made |-> jwks]

\* getOrCreateJWKS (lines 18-31 of jwt.ts): the fetcher returned, the cache
\* and the number of fetchers created afterwards.
GetOrCreateJWKS(cache, issuer, now, made) ==
  IF issuer \in DOMAIN cache /\ (now - cache[issuer].createdAt) < JWKS_CACHE_TTL_MS
  THEN [jwks |-> cache[issuer].jwks, cache |-> cache, made |-> made]
  ELSE LET jwks == made + 1
       IN [jwks |-> jwks,
           cache |-> [i \in DOMAIN cache \cup {issuer} |->
                        IF i = issuer THEN [jwks |-> jwks, createdAt |-> now]
                        ELSE cache[i]],
           made |-> jwks]

\* The tokens a request can carry: one that Cloudflare Access signed for the
\* team and audience below, and one it did not.
GoodToken == <<"signed.jwt">>
BadToken == <<"forged.jwt">>
TeamDomains ==
  {<<"team.example">>, <<"https://", "team.example">>, <<"other.example">>}
Audience == <<"aud-tag">>

\* jwtVerify(token, JWKS, {issuer, audience}) of jose: a payload for a token
\* signed for this issuer and audience when the keys can be fetched, an error
\* otherwise.
JwtVerifyOutcomes(token, issuer, audience) ==
  IF token = GoodToken /\ issuer = <<"https://", "team.example">> /\ audience = Audience
  THEN {"payload", "raise"}
  ELSE {"raise"}

\* The environments a request is handled in: a switch is unset, "true" or
\* another text; the team domain is unset or set; the audience is empty or
\* set.
AccessEnvs ==
  [DEV_MODE : {Undefined, <<"true">>, <<"1">>},
   E2E_TEST_MODE : {Undefined, <<"true">>},
   CF_ACCESS_TEAM_DOMAIN : {Undefined} \cup TeamDomains,
   CF_ACCESS_AUD : {<<>>, Audience}]

\* The CF-Access-JWT-Assertion header and the Cookie header of a request.
Headers == {Undefined, GoodToken, BadToken}
CookieHeaders ==
  {Undefined,
   <<"CF_Authorization", "=", "signed.jwt">>,
   <<"theme", "=", "dark", ";", " ", "CF_Authorization", "=", "forged.jwt">>,
   <<"CF_Authorization", "=">>}

MaxNowMs == 300000
MaxFetchers == 3

Respond(a, status) == acc' = [a EXCEPT !.pc = "done", !.status = status]
CallNext(a) == acc' = [a EXCEPT !.pc = "next", !.nextCalls = @ + 1]

\* Lines 73-126 of middleware.ts: the middleware up to its first await.
AccessRequest(env, type, redirectOnMissing, header, cookie) ==
  /\ acc.pc = "idle"
  /\ fetchers < MaxFetchers
  /\ LET a == [IdleAcc EXCEPT !.env = env, !.type = type,
                              !.redirectOnMissing = redirectOnMissing,
                              !.header = header, !.cookie = cookie]
         jwt == ExtractJWT(header, cookie)
     IN IF IsDevMode(env) \/ IsE2ETestMode(env)
        THEN CallNext([a EXCEPT !.bypassed = TRUE])
        ELSE IF ~Truthy(env.CF_ACCESS_TEAM_DOMAIN) \/ ~Truthy(env.CF_ACCESS_AUD)
        THEN Respond(a, 500)
        ELSE IF ~Truthy(jwt)
        THEN (IF type = "html" /\ redirectOnMissing
              THEN Respond(a, 302)
              ELSE Respond(a, 401))
        ELSE acc' = [a EXCEPT !.pc = "verify", !.jwt = jwt]
  /\ UNCHANGED <<pipeVars, jwksCache, nowMs, fetchers>>

\* Lines 129-131 and 133-152 of middleware.ts, verifyAccessJWT (lines 45-66
\* of jwt.ts): the token is verified; next is called when a payload comes
\* back, 401 is the response when the verification raises.
AccessVerify ==
  /\ acc.pc = "verify"
  /\ LET issuer == Issuer(acc.env.CF_ACCESS_TEAM_DOMAIN)
         cached == IF issuer \in DOMAIN jwksCache THEN jwksCache[issuer] ELSE NoEntry
         got == GetOrCreateJWKS(jwksCache, issuer, nowMs, fetchers)
         a == [acc EXCEPT !.cached = cached, !.jwks = got.jwks]
     IN /\ jwksCache' = got.cache
        /\ fetchers' = got.made
        /\ \E out \in JwtVerifyOutcomes(acc.jwt, issuer, acc.env.CF_ACCESS_AUD) :
             IF out = "payload"
             THEN CallNext([a EXCEPT !.verified = TRUE])
             ELSE Respond(a, 401)
  /\ UNCHANGED <<pipeVars, nowMs>>

\* Line 77 (`return next()`) and line 132 (`await next()` inside the try): the
\* downstream handler returns, or raises; a raise at line 132 is caught and
\* answered with 401, a raise at line 77 leaves the middleware.
AccessNext ==
  /\ acc.pc = "next"
  /\ \/ Respond(acc, 200)
     \/ IF acc.bypassed
        THEN acc' = [acc EXCEPT !.pc = "done", !.thrown = TRUE]
        ELSE Respond(acc, 401)
  /\ UNCHANGED <<pipeVars, jwksCache, nowMs, fetchers>>

\* The response has been sent.
AccessReturn ==
  /\ acc.pc = "done"
  /\ acc' = IdleAcc
  /\ UNCHANGED <<pipeVars, jwksCache, nowMs, fetchers>>

\* clearJWKSCache (lines 14-16 of jwt.ts).
ClearJWKSCache ==
  /\ acc.pc = "idle"
  /\ jwksCache # EmptyCache
  /\ jwksCache' = EmptyCache
  /\ UNCHANGED <<pipeVars, acc, nowMs, fetchers>>

\* Time passes between requests, up to the last millisecond before a
\* multiple of the lifetime of a cache entry, and from there to the multiple.
AdvanceTime ==
  /\ acc.pc = "idle"
  /\ LET d == IF nowMs % JWKS_CACHE_TTL_MS = 0 THEN JWKS_CACHE_TTL_MS - 1 ELSE 1
     IN /\ nowMs + d <= MaxNowMs
        /\ nowMs' = nowMs + d
  /\ UNCHANGED <<pipeVars, acc, jwksCache, fetchers>>

NextAccess ==
  \/ \E env \in AccessEnvs, type \in {"json", "html"}, redirect \in BOOLEAN,
        header \in Headers, cookie \in CookieHeaders :
       AccessRequest(env, type, redirect, header, cookie)
  \/ AccessVerify
  \/ AccessNext
  \/ AccessReturn
  \/ ClearJWKSCache
  \/ AdvanceTime

InitAuth ==
  /\ InitAccess
  /\ source = Unpopulated
  /\ cur = EmptyDest.cur
  /\ prev = EmptyDest.prev
  /\ manifestFile = EmptyDest.manifestFile
  /\ tokenFile = EmptyDest.tokenFile
  /\ clock = 0
  /\ nCorrupt = 0
  /\ inv = [p \in Procs |-> IdleInv]
  /\ synced = NotSynced

SpecAuth == InitAuth /\ [][NextAccess]_vars

(***************************************************************************)
(* Invocations that overlap.  Nothing in syncToR2 or verifyR2Backup takes   *)
(* a lock or looks for another invocation: each awaits its own commands,   *)
(* and between two awaits of one invocation the commands of another can    *)
(* run against the same destination.  Two callers sync and one verifies,   *)
(* each once, their commands interleaved; the destination holds the backup *)
(* of an earlier state of the source, and no stored file is damaged.  The   *)
(* behaviours explored are those in which fewer than MaxFaults invocations *)
(* have met a failing command before the last step.                        *)
(***************************************************************************)
SyncCallers == {1, 2}
VerifyCallers == {3}

\* The destination after a sync of source s into an empty bucket in which
\* every step succeeded.
BackedUp(s) ==
  LET c == [r \in RootSet |-> Mirror(r, s[r], NoDir)]
  IN [cur |-> c,
      prev |-> EmptyDest.prev,
      manifestFile |-> [kind |-> "doc",
                        doc |-> MkManifest(0, ParseEntries(ManifestStdout(c)))],
      tokenFile |-> [exists |-> TRUE, text |-> DateText(0) \o <<"\n">>]]

\* The source when the backup was taken, and the source now: the config was
\* edited, the skill removed, and the gateway holds its lock.
SourceBefore ==
  MkSource(MkDir([n \in {MarkerName} |-> "A"]), MkDir([n \in {SkillName} |-> "A"]))
SourceNow ==
  MkSource(MkDir([n \in {MarkerName, LockName} |-> "B"]), MkDir(NoFiles))

InitConc ==
  /\ InitAccess
  /\ source = SourceNow
  /\ cur = BackedUp(SourceBefore).cur
  /\ prev = BackedUp(SourceBefore).prev
  /\ manifestFile = BackedUp(SourceBefore).manifestFile
  /\ tokenFile = BackedUp(SourceBefore).tokenFile
  /\ clock = 0
  /\ nCorrupt = 0
  /\ inv = [p \in Procs |-> IdleInv]
  /\ synced = [ok |-> TRUE, changed |-> {}]

\* The record of invocation i shows a command that failed or raised, or a
\* mount that was refused.
Faulted(i) ==
  \/ i.raised # "none"
  \/ i.exitCode # 0
  \/ \E r \in RootSet : i.rot[r] \in {"cpFail", "rmFail"}
  \/ i.wroteManifest = "fail"
  \/ i.wroteToken = "fail"
  \/ i.pc = "done" /\ i.issued = <<>>

\* Invocations that met a failing command, and files lost under a command.
FaultsMet == Cardinality({p \in Procs : Faulted(inv[p])}) + nCorrupt

NextConc ==
  /\ FaultsMet < MaxFaults
  /\ \/ \E p \in SyncCallers :
          \/ SyncStart(p, Creds)
          \/ SyncMount(p)
          \/ SyncSanity(p)
          \/ SyncRotate(p)
          \/ SyncTransfer(p)
          \/ SyncManifest(p)
          \/ SyncWrite(p)
          \/ SyncReadback(p)
     \/ \E p \in VerifyCallers :
          \/ VerifyStart(p, Creds)
          \/ VerifyMount(p)
          \/ VerifyRead(p)
          \/ VerifyEntry(p)

SpecConc == InitConc /\ [][NextConc]_vars

(***************************************************************************)
(* Verification on its own: a caller verifies, again and again, the backup *)
(* of a source; between verifications a stored file may be damaged.        *)
(***************************************************************************)
\* The sources whose backup is verified: config and one skill; config and a
\* skill file whose name holds a command substitution.
VerifiedSources ==
  {SourceBefore,
   MkSource(MkDir([n \in {MarkerName} |-> "A"]), MkDir([n \in {SubstName} |-> "A"]))}

InitVerify ==
  /\ InitAccess
  /\ source \in VerifiedSources
  /\ cur = BackedUp(source).cur
  /\ prev = BackedUp(source).prev
  /\ manifestFile = BackedUp(source).manifestFile
  /\ tokenFile = BackedUp(source).tokenFile
  /\ clock = 0
  /\ nCorrupt = 0
  /\ inv = [p \in Procs |-> IdleInv]
  /\ synced = [ok |-> TRUE, changed |-> {}]

NextVerify ==
  \/ \E p \in VerifyCallers :
       \/ \E env \in Envs : VerifyStart(p, env)
       \/ VerifyMount(p)
       \/ VerifyRead(p)
       \/ VerifyEntry(p)
       \/ Return(p)
  \/ \E r \in RootSet, n \in {MarkerName, SkillName, SubstName} : Corrupt(r, n)

SpecVerify == InitVerify /\ [][NextVerify]_vars

(***************************************************************************)
(* Claims.                                                                 *)
(***************************************************************************)
Sync(p) == inv[p].op = "sync"
Verify(p) == inv[p].op = "verify"
Done(p) == inv[p].pc = "done"

\* The sanity check of p's invocation was issued and did not print "ok".
NotReportedPresent(p) ==
  /\ Sync(p)
  /\ "sanity" \in Range(inv[p].issued)
  /\ ~Includes(inv[p].checkStdout, <<"o", "k">>)

\* What every invocation whose sanity check did not report the marker shows:
\* it has ended in failure, only the sanity check was issued, and the
\* destination is as it was at entry.
AbortedBeforeRotate(p) ==
  /\ Done(p)
  /\ inv[p].result.success = FALSE
  /\ inv[p].result.lastSync = Undefined
  /\ inv[p].issued = <<"sanity">>
  /\ dest = inv[p].start

\* C1 (as stated): whenever the sanity check does not report the marker as
\* present, the result is success=false with the error naming the missing
\* file, no rotate, transfer or later command is issued and the destination is
\* unchanged.
C1_Original ==
  \A p \in Procs :
    NotReportedPresent(p) =>
      /\ AbortedBeforeRotate(p)
      /\ inv[p].result.error = "Sync aborted: source missing clawdbot.json"

\* C1 (amended): whenever the sanity check does not report the marker as
\* present, the result is success=false, no rotate, transfer or later command
\* is issued and the destination is unchanged; the error names the missing
\* file when the check ran to its end, and is "Failed to verify source files"
\* when starting, awaiting or reading the check raised.
C1_SanityAbort ==
  \A p \in Procs :
    NotReportedPresent(p) =>
      /\ AbortedBeforeRotate(p)
      /\ inv[p].result.error =
           IF inv[p].raised = "none"
           THEN "Sync aborted: source missing clawdbot.json"
           ELSE "Failed to verify source files"

\* A sync aborted for the missing marker while a backup is on the destination.
C1_Witness ==
  \E p \in Procs :
    /\ NotReportedPresent(p) /\ Done(p) /\ inv[p].raised = "none"
    /\ MarkerName \in DOMAIN cur["clawdbot"].files
    /\ tokenFile.exists

\* C2 (as stated): whenever syncToR2 returns success=true, the token it
\* returns as lastSync was written by the ManifestPersist step of the same
\* invocation.
C2_FreshToken ==
  \A p \in Procs :
    (Sync(p) /\ Done(p) /\ inv[p].result.success) =>
      /\ inv[p].wroteToken = "ok"
      /\ inv[p].result.lastSync \o <<"\n">> = inv[p].tokenWritten

\* C3 (as stated): in every state where this invocation's token has been
\* written, this invocation's manifest write has succeeded.
C3_TokenAfterManifest ==
  \A p \in Procs :
    (Sync(p) /\ inv[p].wroteToken = "ok") => inv[p].wroteManifest = "ok"

\* C4 (as stated): no invocation ends at the Rotate step: once the rotate
\* command has been issued, the invocation does not end before the transfer
\* command has been issued too.
C4_RotateNeverAborts ==
  \A p \in Procs :
    (Sync(p) /\ Done(p) /\ "rotate" \in Range(inv[p].issued)) =>
      "transfer" \in Range(inv[p].issued)

\* A step in which p's rotate command was started and ran.
RotateRan(p) ==
  /\ Sync(p)
  /\ inv[p].pc = "rotate"
  /\ inv'[p].pc # "rotate"
  /\ inv'[p].raised # "startProcess"

IssuedBefore(pc) ==
  IF pc \in Range(SyncOrder)
  THEN SubSeq(SyncOrder, 1, (CHOOSE k \in 1..Len(SyncOrder) : SyncOrder[k] = pc) - 1)
  ELSE <<>>

\* C6: the commands of a sync are issued in the order sanity, rotate,
\* transfer, manifest, write, readback, each at most once: what has been
\* issued is a prefix of that order, and at each position exactly the earlier
\* commands have been issued (so the transfer is issued only once the rotate
\* command has been awaited); the mount provider is invoked at most once; a
\* failure of ConfigCheck or MountCheck ends the invocation with no command
\* issued, a failure of the sanity check with only the sanity check issued.
C6_Order ==
  \A p \in Procs : Sync(p) =>
    /\ IsPrefix(inv[p].issued, SyncOrder)
    /\ inv[p].mountCalls <= 1
    /\ ~Done(p) => inv[p].issued = IssuedBefore(inv[p].pc)
    /\ (Done(p) /\ inv[p].result.error \in
          {"R2 storage is not configured", "Failed to mount R2 storage"})
         => inv[p].issued = <<>>
    /\ (Done(p) /\ inv[p].result.error \in
          {"Sync aborted: source missing clawdbot.json",
           "Failed to verify source files"})
         => inv[p].issued = <<"sanity">>

\* A sync that has issued all six commands and returned success.
C6_Witness ==
  \E p \in Procs :
    /\ Sync(p) /\ Done(p)
    /\ inv[p].issued = SyncOrder
    /\ inv[p].result.success

\* C7: with a required credential missing, sync returns success=false and
\* verify returns valid=false, each with the not-configured error, the mount
\* provider is not invoked, no command is issued and the destination is
\* unchanged.
C7_NotConfigured ==
  \A p \in Procs :
    (inv[p].op # "none" /\ inv[p].env # Creds) =>
      /\ Done(p)
      /\ inv[p].mountCalls = 0
      /\ inv[p].issued = <<>>
      /\ dest = inv[p].start
      /\ Sync(p) => /\ inv[p].result.success = FALSE
                    /\ inv[p].result.error = "R2 storage is not configured"
      /\ Verify(p) => /\ inv[p].vresult.valid = FALSE
                      /\ inv[p].vresult.errors = <<Msg("R2 storage is not configured")>>

\* A verify called without the account id while a backup is on the destination.
C7_Witness ==
  \E p \in Procs :
    /\ Verify(p) /\ Done(p)
    /\ inv[p].env = Creds \ {"CF_ACCOUNT_ID"}
    /\ manifestFile.kind = "doc"

\* Every step of p's sync succeeded.
AllStepsSucceeded(p) ==
  /\ Sync(p) /\ Done(p)
  /\ inv[p].raised = "none"
  /\ inv[p].issued = SyncOrder
  /\ inv[p].exitCode = 0
  /\ inv[p].wroteManifest = "ok"
  /\ inv[p].wroteToken = "ok"

\* C8: a sync in which every step succeeds returns success=true with lastSync
\* equal to the token its ManifestPersist step wrote (the line in .last-sync
\* without its newline), and lastSync begins with four digits, dash, two
\* digits, dash, two digits.
C8_Success ==
  \A p \in Procs :
    AllStepsSucceeded(p) =>
      LET t == inv[p].result.lastSync
      IN /\ inv[p].result.success
         /\ t \o <<"\n">> = inv[p].tokenWritten
         /\ t = DateText(clock)
         /\ Len(t) >= 10
         /\ \A k \in {1, 2, 3, 4, 6, 7, 9, 10} : t[k] \in Range(DigitChars)
         /\ t[5] = "-" /\ t[8] = "-"

\* A fully successful second sync, over a token left by an earlier one.
C8_Witness ==
  \E p \in Procs :
    /\ AllStepsSucceeded(p)
    /\ clock = 1
    /\ \A r \in RootSet : prev[r].exists

\* p's sync read the token back after a transfer that exited non-zero, and the
\* token was missing or did not match the pattern.
FailedTransferNoToken(p) ==
  /\ Sync(p) /\ Done(p)
  /\ inv[p].issued = SyncOrder
  /\ inv[p].raised \in {"none", "getLogs(transfer)"}
  /\ inv[p].exitCode # 0
  /\ ~MatchesDatePrefix(Trim(CatToken(tokenFile)))

\* stderr, else stdout, else the fixed text.
DetailsOf(logs) ==
  CASE logs.stderr # <<>> -> logs.stderr
    [] logs.stderr = <<>> /\ logs.stdout # <<>> -> logs.stdout
    [] OTHER -> <<"No timestamp file created">>

\* C9 (as stated): transfer exited non-zero and the token read back is missing
\* or malformed: the result is success=false, error "Sync failed", details the
\* transfer's stderr, else its stdout, else the fixed text.
C9_Original ==
  \A p \in Procs :
    FailedTransferNoToken(p) =>
      /\ inv[p].result.success = FALSE
      /\ inv[p].result.error = "Sync failed"
      /\ inv[p].result.details = DetailsOf(inv[p].procLogs)

\* C9 (amended): transfer exited non-zero and the token read back is missing
\* or malformed: the result is success=false; when the transfer's output is
\* read, the error is "Sync failed" and details are its stderr, else its
\* stdout, else the fixed text; when reading the transfer's output raises, the
\* error is "Sync error" and details are the raised message.
C9_SyncFailed ==
  \A p \in Procs :
    FailedTransferNoToken(p) =>
      /\ inv[p].result.success = FALSE
      /\ inv[p].raised = "none" =>
           /\ inv[p].result.error = "Sync failed"
           /\ inv[p].result.details = DetailsOf(inv[p].procLogs)
      /\ inv[p].raised # "none" =>
           /\ inv[p].result.error = "Sync error"
           /\ inv[p].result.details = <<"getLogs rejected">>

\* A failed transfer that printed on both outputs, and no token.
C9_Witness ==
  \E p \in Procs :
    /\ FailedTransferNoToken(p) /\ inv[p].raised = "none"
    /\ inv[p].procLogs.stderr # <<>> /\ inv[p].procLogs.stdout # <<>>
    /\ ~tokenFile.exists

\* The mismatch errors of a manifest's entries against the stored files, in
\* manifest order.
RECURSIVE ExpectedErrors(_, _)
ExpectedErrors(entries, c) ==
  IF entries = <<>> THEN <<>>
  ELSE LET e == Head(entries)
           got == ActualChecksum(c, e.path)
       IN (IF got # e.checksum
           THEN <<[kind |-> "Checksum mismatch", path |-> e.path,
                   expected |-> e.checksum, got |-> got]>>
           ELSE <<>>) \o ExpectedErrors(Tail(entries), c)

\* p's verify has read and parsed the manifest and has ended.
VerifiedManifest(p) == Verify(p) /\ Done(p) /\ inv[p].idx >= 1

\* Verify checked all N entries and reports exactly the mismatching ones.
ReportsAllMismatches(p) ==
  LET entries == inv[p].manifest.entries
      expected == ExpectedErrors(entries, cur)
  IN /\ Len(inv[p].issued) = 1 + Len(entries)
     /\ inv[p].vresult.errors = expected
     /\ inv[p].vresult.valid = (expected = <<>>)

\* C10 (as stated): over a manifest of N entries of which M mismatch, verify
\* checks all N and returns exactly the M mismatch errors, in manifest order,
\* each with path, expected and actual checksum, and valid=false when M > 0.
C10_Original ==
  \A p \in Procs : VerifiedManifest(p) => ReportsAllMismatches(p)

\* C10 (amended): the same, provided no call of a checksum command raises;
\* when one raises, verify stops there and returns valid=false with the single
\* error "Verification error", without the mismatches found before.
C10_VerifyAll ==
  \A p \in Procs :
    VerifiedManifest(p) =>
      IF inv[p].raised = "none"
      THEN ReportsAllMismatches(p)
      ELSE /\ inv[p].vresult.valid = FALSE
           /\ inv[p].vresult.errors = <<Msg("Verification error")>>

\* Two entries, the first mismatching and the second checked and found intact.
C10_Witness ==
  \E p \in Procs :
    /\ VerifiedManifest(p) /\ inv[p].raised = "none"
    /\ Len(inv[p].manifest.entries) = 2
    /\ Len(inv[p].issued) = 3
    /\ Len(inv[p].vresult.errors) = 1
    /\ inv[p].vresult.errors[1].path = inv[p].manifest.entries[1].path
    /\ inv[p].vresult.valid = FALSE

\* p's verify has started the read of the manifest and none is stored.
ReadNoManifest(p) ==
  /\ Verify(p)
  /\ inv[p].issued # <<>>
  /\ manifestFile.kind = "absent"

\* C11 (as stated): when config and mount succeed and no manifest is on the
\* destination, verify returns valid=false with the single error "No manifest
\* found" and issues no checksum command.
C11_Original ==
  \A p \in Procs :
    ReadNoManifest(p) =>
      /\ Done(p)
      /\ inv[p].issued = <<"cat manifest">>
      /\ inv[p].vresult = [valid |-> FALSE, errors |-> <<Msg("No manifest found")>>]

\* C11 (amended): when config and mount succeed and no manifest is on the
\* destination, verify returns valid=false with a single error and issues no
\* checksum command; the error is "No manifest found" when the read of the
\* manifest completes, and "Verification error" when starting, awaiting or
\* reading it raises; nothing is handed to the JSON parser.
C11_NoManifest ==
  \A p \in Procs :
    ReadNoManifest(p) =>
      /\ Done(p)
      /\ inv[p].raised # "JSON.parse"
      /\ inv[p].issued = <<"cat manifest">>
      /\ inv[p].vresult.valid = FALSE
      /\ inv[p].vresult.errors =
           IF inv[p].raised = "none"
           THEN <<Msg("No manifest found")>>
           ELSE <<Msg("Verification error")>>

\* A verify that found no manifest although files are stored.
C11_Witness ==
  \E p \in Procs :
    /\ ReadNoManifest(p) /\ Done(p) /\ inv[p].raised = "none"
    /\ inv[p].vresult.errors = <<Msg("No manifest found")>>
    /\ cur["clawdbot"].files # NoFiles

\* p's verify ran to its end, with credentials, the mount and every executor
\* call succeeding, over a destination left by a sync in which every step
\* succeeded.
VerifiedAfterSync(p) ==
  /\ Verify(p) /\ Done(p)
  /\ inv[p].issued # <<>>
  /\ inv[p].raised = "none"
  /\ synced.ok

\* C12 (as stated): a verify after a fully successful sync, with nothing
\* changed in between, returns valid=true and no errors, whatever the source
\* tree; with the content of exactly one stored file changed in between, it
\* returns valid=false and exactly one error, which names that file's path.
C12_RoundTrip ==
  \A p \in Procs :
    VerifiedAfterSync(p) =>
      /\ synced.changed = {} =>
           inv[p].vresult = [valid |-> TRUE, errors |-> <<>>]
      /\ \A f \in synced.changed :
           synced.changed = {f} =>
             /\ inv[p].vresult.valid = FALSE
             /\ Len(inv[p].vresult.errors) = 1
             /\ inv[p].vresult.errors[1].path = PathOf(f[1], f[2])

RequestToken ==
  IF acc.header # Undefined THEN acc.header
  ELSE IF acc.cookie = <<"CF_Authorization", "=", "signed.jwt">> THEN GoodToken
  ELSE IF acc.cookie = <<"theme", "=", "dark", ";", " ",
                         "CF_Authorization", "=", "forged.jwt">> THEN BadToken
  ELSE Undefined

\* Cloudflare Access is configured for the request being handled.
AccessConfigured ==
  /\ acc.pc # "idle"
  /\ acc.env.CF_ACCESS_TEAM_DOMAIN \in TeamDomains
  /\ acc.env.CF_ACCESS_AUD = Audience

\* C14: with Cloudflare Access configured, whatever DEV_MODE and
\* E2E_TEST_MODE are, next is called at most once and only after
\* verifyAccessJWT returned a payload for the token the request carries; a
\* request without a token is answered 401 (302 for html with
\* redirectOnMissing) and one with an invalid token 401, with next never
\* called.
C14_NoBypass ==
  AccessConfigured =>
    /\ ~acc.bypassed
    /\ acc.nextCalls <= 1
    /\ acc.nextCalls > 0 =>
         /\ acc.verified
         /\ acc.jwt = RequestToken
         /\ acc.jwt = GoodToken
    /\ RequestToken = Undefined =>
         /\ acc.pc = "done"
         /\ acc.nextCalls = 0
         /\ acc.status = IF acc.type = "html" /\ acc.redirectOnMissing
                         THEN 302 ELSE 401
    /\ RequestToken = BadToken =>
         /\ acc.nextCalls = 0
         /\ acc.pc = "done" => acc.status = 401

\* Both switches are "true", Access is configured and the request carries a
\* token that does not verify: answered 401 without next.
C14_Witness ==
  /\ AccessConfigured
  /\ acc.env.DEV_MODE = <<"true">> /\ acc.env.E2E_TEST_MODE = <<"true">>
  /\ RequestToken = BadToken
  /\ acc.pc = "done" /\ acc.status = 401 /\ acc.nextCalls = 0

\* p's sync ran its transfer and the transfer exited non-zero.
TransferFailed(p) == Sync(p) /\ inv[p].exitCode # 0

\* The token on the destination is present and has the date prefix.
TokenWellFormed ==
  LET t == Trim(CatToken(tokenFile))
  IN t # <<>> /\ MatchesDatePrefix(t)

\* C15 (as stated): after a transfer that exited non-zero the manifest,
\* write and read-back commands are still issued, and the result is success
\* exactly when the token read back is present and well-formed.
C15_Original ==
  \A p \in Procs :
    (TransferFailed(p) /\ Done(p)) =>
      /\ inv[p].issued = SyncOrder
      /\ inv[p].result.success = TokenWellFormed

\* C15 (amended): after a transfer that exited non-zero the cycle goes on to
\* manifest generation; as long as no executor call raises, manifest, write
\* and read-back are all issued and the result is success exactly when the
\* token read back is present and well-formed, whatever the exit status; when
\* a call of a later step raises, the cycle ends there with "Sync error".
C15_ExitIgnored ==
  \A p \in Procs :
    TransferFailed(p) =>
      /\ ~Done(p) => inv[p].pc \in {"manifest", "write", "readback"}
      /\ (Done(p) /\ inv[p].raised \in {"none", "getLogs(transfer)"}) =>
           /\ inv[p].issued = SyncOrder
           /\ inv[p].raised = "none" => inv[p].result.success = TokenWellFormed
           /\ inv[p].raised # "none" => ~TokenWellFormed /\ ~inv[p].result.success
      /\ (Done(p) /\ inv[p].raised # "none") =>
           /\ inv[p].result.success = FALSE
           /\ inv[p].result.error = "Sync error"

\* A sync that returned success after its transfer exited non-zero.
C15_Witness ==
  \E p \in Procs :
    /\ TransferFailed(p) /\ Done(p)
    /\ inv[p].issued = SyncOrder
    /\ inv[p].result.success
    /\ inv[p].wroteToken = "ok"

\* A record of the enumeration output is well-formed: it holds the field
\* separator and its size field begins (after blanks) with a digit, so that
\* it reads as an integer.
WellFormedRecord(line) ==
  /\ "|" \in Range(line)
  /\ LET fields == Split(line, "|")
     IN /\ Len(fields) >= 3
        /\ TrimStart(fields[3]) # <<>>
        /\ Head(TrimStart(fields[3])) \in Range(DigitChars)

\* The paths of the well-formed records among lines, in order.
RECURSIVE WellFormedPaths(_)
WellFormedPaths(lines) ==
  IF lines = <<>> THEN <<>>
  ELSE (IF WellFormedRecord(Head(lines))
        THEN <<Split(Head(lines), "|")[1]>> ELSE <<>>)
       \o WellFormedPaths(Tail(lines))

\* C16 (as stated): the manifest built from the enumeration output has
\* exactly one entry per well-formed record, in the order of the output, and
\* none for a malformed record (no separator, or a size that does not read as
\* an integer); a malformed record does not end manifest generation.
C16_SkipsMalformed ==
  \A p \in Procs :
    (Sync(p) /\ inv[p].pc = "write") =>
      LET lines == Split(Trim(inv[p].manifestStdout), "\n")
      IN [k \in 1..Len(inv[p].entries) |-> inv[p].entries[k].path]
           = WellFormedPaths(lines)

\* No file is stored under path on the destination.
FileMissing(path) ==
  \A r \in RootSet :
    ~(cur[r].exists /\ \E n \in DOMAIN cur[r].files : PathOf(r, n) = path)

\* C17 (as stated): a verify that read the manifest and ran to its end has
\* checked every entry, and for every entry whose file is missing, whatever
\* checksum the entry records, errors holds exactly one error for that path
\* and valid is false.
C17_MissingIsMismatch ==
  \A p \in Procs :
    (VerifiedManifest(p) /\ inv[p].raised = "none") =>
      LET entries == inv[p].manifest.entries
          errors == inv[p].vresult.errors
      IN /\ Len(inv[p].issued) = 1 + Len(entries)
         /\ \A k \in 1..Len(entries) :
              FileMissing(entries[k].path) =>
                /\ Cardinality({j \in 1..Len(errors) :
                                  errors[j].path = entries[k].path}) = 1
                /\ inv[p].vresult.valid = FALSE

\* C18: every result verifyR2Backup returns (not configured, mount failed,
\* no manifest, an error caught, the comparison completed) has valid = true
\* if and only if errors is empty.
C18_ValidIffNoErrors ==
  \A p \in Procs :
    (Verify(p) /\ Done(p)) =>
      (inv[p].vresult.valid <=> inv[p].vresult.errors = <<>>)

\* A completed comparison that found a mismatch among two entries.
C18_Witness ==
  \E p \in Procs :
    /\ Verify(p) /\ Done(p) /\ inv[p].raised = "none"
    /\ Len(inv[p].manifest.entries) = 2
    /\ inv[p].idx = 2
    /\ inv[p].vresult.errors # <<>>
    /\ ~inv[p].vresult.valid

\* The entries that describe the regular files under the current
\* directories: one per file in the order of find, with its path, checksum
\* and size in bytes.
DescribingEntries ==
  LET fs == FindFiles(cur)
  IN [k \in 1..Len(fs) |->
        LET content == cur[fs[k][1]].files[fs[k][2]]
        IN [path |-> PathOf(fs[k][1], fs[k][2]),
            checksum |-> MD5(content),
            size |-> IF content = "A" THEN 7 ELSE 12]]

\* C19 (as stated): every step that writes a manifest document is taken by a
\* sync that has attempted its transfer, and the entries of the document are
\* exactly those describing the regular files under the current directories
\* at that moment.
C19_ManifestDescribesCurrent ==
  [][(manifestFile' # manifestFile /\ manifestFile'.kind = "doc") =>
       /\ \E p \in Procs :
            /\ Sync(p) /\ inv[p].pc = "write"
            /\ "transfer" \in Range(inv[p].issued)
       /\ manifestFile'.doc.entries = DescribingEntries']_vars

\* The transfer command of q's sync was started and has acted on current.
TransferRan(q) ==
  /\ Sync(q)
  /\ "transfer" \in Range(inv[q].issued)
  /\ ~(/\ inv[q].raised = "startProcess"
       /\ inv[q].issued[Len(inv[q].issued)] = "transfer")

\* An entry of v's errors reports a checksum mismatch.
ReportsMismatch(v) ==
  \E k \in 1..Len(inv[v].errors) : inv[v].errors[k].kind = "Checksum mismatch"

\* C20: invocations against one destination are not serialized, and the two
\* races this allows come from the overlap and from nothing else.  With the
\* commands of two syncs and a verify interleaved over an undamaged backup: a
\* rotation whose rm and cp succeed leaves in previous a copy of a current
\* that differs from the current the rotating invocation found at its entry
\* only if another sync's transfer has acted in between, and a verify
\* reports a checksum mismatch only if a sync's transfer has acted since the
\* manifest it read was written.
C20_RacesComeFromOverlap ==
  [][/\ \A p \in Procs : RotateRan(p) =>
          \A r \in RootSet :
            (cur[r].exists /\ inv'[p].rot[r] = "ok"
               /\ prev'[r] # inv[p].start.cur[r])
              => \E q \in Procs \ {p} : TransferRan(q)
     /\ \A v \in Procs :
          (inv'[v].op = "verify" /\ inv'[v].pc = "done"
             /\ inv[v].pc # "done" /\ nCorrupt' = nCorrupt
             /\ \E k \in 1..Len(inv'[v].errors) :
                  inv'[v].errors[k].kind = "Checksum mismatch")
            => \E q \in Procs : TransferRan(q)]_vars

\* Both races at once.  Sync p has transferred and not yet written its
\* manifest.  Sync q, which was entered before that transfer, has then
\* rotated: previous is a copy of the current p's transfer left, which is
\* neither the current q found at its entry nor the one p found (the backup
\* all three callers started from, p's transfer being the first to act).
\* Verify v has ended meanwhile and reports a mismatch; no file was damaged.
C20_Witness ==
  \E p \in SyncCallers, q \in SyncCallers, v \in VerifyCallers :
    /\ p # q
    /\ TransferRan(p) /\ inv[p].pc \in {"manifest", "write"}
    /\ Sync(q) /\ inv[q].pc = "transfer" /\ inv[q].rot["clawdbot"] = "ok"
    /\ prev["clawdbot"] = cur["clawdbot"]
    /\ prev["clawdbot"] # inv[q].start.cur["clawdbot"]
    /\ prev["clawdbot"] # BackedUp(SourceBefore).cur["clawdbot"]
    /\ inv[q].start.cur = BackedUp(SourceBefore).cur
    /\ Verify(v) /\ Done(v) /\ ReportsMismatch(v)
    /\ nCorrupt = 0

\* A step of a verify invocation of p: its entry, one of its commands, its
\* return.
VerifyStep(p) ==
  /\ inv'[p] # inv[p]
  /\ inv[p].op = "verify" \/ inv'[p].op = "verify"

\* C21: verifyR2Backup only reads: no step of a verify invocation changes
\* current, previous, the manifest document or the timestamp token, whatever
\* the manifest holds.
C21_VerifyReadOnly ==
  [][(\E p \in Procs : VerifyStep(p)) => dest' = dest]_vars

\* A step in which verifyAccessJWT ran, and with it getOrCreateJWKS.
JWKSCalled == acc.pc = "verify" /\ acc'.pc # "verify"

\* The issuer getOrCreateJWKS is called for.
CalledIssuer == Issuer(acc.env.CF_ACCESS_TEAM_DOMAIN)

\* The issuer has an entry that was created less than 5 minutes
\* (5 * 60 * 1000 ms) ago.
FreshEntry(issuer) ==
  /\ issuer \in DOMAIN jwksCache
  /\ nowMs - jwksCache[issuer].createdAt < 5 * 60 * 1000

\* C22: the cache holds one fetcher per issuer, and no fetcher under two
\* issuers.  getOrCreateJWKS returns the issuer's cached fetcher, creating
\* none and leaving the cache as it is, if and only if the entry was created
\* less than 5 minutes before the call; otherwise it creates a fetcher that
\* did not exist, returns it and stores it with the current time in place of
\* the issuer's entry.  Entries of other issuers stay as they are, and after
\* clearJWKSCache no issuer has an entry.
C22_JWKSCache ==
  [][/\ JWKSCalled =>
          /\ FreshEntry(CalledIssuer) =>
               /\ acc'.jwks = jwksCache[CalledIssuer].jwks
               /\ jwksCache' = jwksCache
               /\ fetchers' = fetchers
          /\ ~FreshEntry(CalledIssuer) =>
               /\ fetchers' = fetchers + 1
               /\ \A i \in DOMAIN jwksCache : acc'.jwks # jwksCache[i].jwks
               /\ jwksCache'[CalledIssuer] = [jwks |-> acc'.jwks, createdAt |-> nowMs]
          /\ DOMAIN jwksCache' = DOMAIN jwksCache \cup {CalledIssuer}
          /\ \A i \in DOMAIN jwksCache \ {CalledIssuer} : jwksCache'[i] = jwksCache[i]
          /\ \A i, j \in DOMAIN jwksCache' :
               i # j => jwksCache'[i].jwks # jwksCache'[j].jwks
     /\ (acc.pc = "idle" /\ jwksCache' # jwksCache) => DOMAIN jwksCache' = {}
     /\ ~JWKSCalled => fetchers' = fetchers]_vars

\* A verification has just replaced an entry that had reached its fifth
\* minute by a new fetcher, while the entry of another issuer, created one
\* millisecond before, is still there.
C22_Witness ==
  /\ acc.pc \in {"next", "done"}
  /\ acc.cached.jwks # 0
  /\ nowMs - acc.cached.createdAt = 5 * 60 * 1000
  /\ acc.jwks # acc.cached.jwks
  /\ \E i \in DOMAIN jwksCache :
       /\ jwksCache[i] = [jwks |-> acc.jwks, createdAt |-> nowMs]
       /\ \E j \in DOMAIN jwksCache \ {i} :
            /\ nowMs - jwksCache[j].createdAt = 1
            /\ jwksCache[j].jwks \notin {acc.jwks, acc.cached.jwks}
====
